---- MODULE Spec2Model ----
(***************************************************************************)
(* Technical-indicator and signal-detection engine of the dashboard:       *)
(* get_closed_dates, get_MACD, get_RSI and get_trading_strategy of         *)
(* Dashboard_Functions.py (get_trading_strategy is repeated verbatim in    *)
(* app.py), driven by the __main__ script of Dashboard_Functions.py.       *)
(*                                                                         *)
(* A DataFrame is a function from column names to equally long sequences.  *)
(* A float is <<>> (NaN), <<s, n, d>> (the rational s * n / d with sign s, *)
(* n and d natural numbers of any size, d > 0) or <<1, <<1>>, <<>>>> /     *)
(* <<-1, <<1>>, <<>>>> (+inf / -inf).                                      *)
(***************************************************************************)
EXTENDS Integers, Sequences, FiniteSets, TLC

VARIABLES
    csv,          \* rows of the input file, in file order: [Date, Close]
    df,           \* the DataFrame the operations read and write
    pc,           \* the operation about to run
    i,            \* get_trading_strategy: loop index (0-based, as in the code)
    flag,         \* get_trading_strategy: FALSE = Flat, TRUE = Holding
    buy_list,     \* get_trading_strategy: Buy entries appended so far
    sell_list,    \* get_trading_strategy: Sell entries appended so far
    closed_dates, \* value returned by get_closed_dates
    raised,       \* <<>> or <<operation, exception>> once an operation raised
    look_back,    \* the time_window / period an RSI operation is called with
    peer          \* a second call of get_trading_strategy in progress: its own df, pc, i,
                  \* flag, buy_list and sell_list

vars == <<csv, df, pc, i, flag, buy_list, sell_list, closed_dates, raised, look_back, peer>>

(***************************************************************************)
(* Bounds of the model.                                                    *)
(***************************************************************************)
MaxLen == 3        \* rows of a DataFrame handed to get_trading_strategy / get_closed_dates
MaxDay == 3        \* calendar days are 0 .. MaxDay
TicksPerDay == 2   \* Timestamp resolution: instants per calendar day
PipeLen == 2       \* rows of the input file of the __main__ script
MaxClose == 3      \* finite closing prices of the input file are 1 .. MaxClose

(***************************************************************************)
(* Integers of any size, as the numerators and denominators of the floats  *)
(* need them: the denominator of Signal grows by a factor 1755 a row.      *)
(***************************************************************************)
Base == 10000            \* a limb is a digit in this base
SmoothModulus == 24570   \* 2 * 3^3 * 5 * 7 * 13: the primes of the smoothing factors

Abs(n) == IF n < 0 THEN -n ELSE n
SignOf(n) == IF n < 0 THEN -1 ELSE IF n > 0 THEN 1 ELSE 0
Min(m, n) == IF m < n THEN m ELSE n
Max(m, n) == IF m > n THEN m ELSE n

RECURSIVE Gcd(_, _)
Gcd(a, b) == IF b = 0 THEN a ELSE Gcd(b, a % b)

\* natural numbers of any size: limbs in base Base, least significant first,
\* no zero at the most significant end; 0 is <<>>.  Numbers of at most two
\* limbs are computed on as integers; on longer ones the operations halve the
\* range of limbs they work on, so their depth grows with the logarithm of
\* the length.
RECURSIVE BNat(_)
BNat(n) == IF n = 0 THEN <<>> ELSE <<n % Base>> \o BNat(n \div Base)

\* the value of a number of at most two limbs
BSmall(a) == Len(a) <= 2
BInt(a) == IF Len(a) = 0 THEN 0 ELSE IF Len(a) = 1 THEN a[1] ELSE a[1] + Base * a[2]

\* limb k of a, 0 above its most significant limb
Limb(a, k) == IF k <= Len(a) THEN a[k] ELSE 0

\* r, or s when r is 0
OrElse(r, s) == IF r # 0 THEN r ELSE s

\* the index of the most significant limb of a[lo .. hi] that is not 0, or 0
RECURSIVE TopLimb(_, _, _)
TopLimb(a, lo, hi) ==
    IF lo = hi THEN (IF a[lo] # 0 THEN lo ELSE 0)
    ELSE OrElse(TopLimb(a, (lo + hi) \div 2 + 1, hi), TopLimb(a, lo, (lo + hi) \div 2))

BStrip(a) == IF Len(a) = 0 THEN <<>> ELSE SubSeq(a, 1, TopLimb(a, 1, Len(a)))

\* the sign of a[k] + s * b[k] - c at the most significant limb k of lo .. hi
\* where it is not 0, or 0
RECURSIVE TopSign(_, _, _, _, _, _)
TopSign(a, b, s, c, lo, hi) ==
    IF lo = hi THEN SignOf(Limb(a, lo) + s * Limb(b, lo) - c)
    ELSE OrElse(TopSign(a, b, s, c, (lo + hi) \div 2 + 1, hi),
                TopSign(a, b, s, c, lo, (lo + hi) \div 2))

\* the same below limb k: the limb next to k decides unless it is 0 there
SignBelow(a, b, s, c, k) ==
    IF k = 1 THEN 0
    ELSE OrElse(SignOf(Limb(a, k - 1) + s * Limb(b, k - 1) - c),
                IF k = 2 THEN 0 ELSE TopSign(a, b, s, c, 1, k - 2))

BCmp(a, b) ==
    IF BSmall(a) /\ BSmall(b) THEN SignOf(BInt(a) - BInt(b))
    ELSE IF Len(a) > Len(b) THEN 1
    ELSE IF Len(a) < Len(b) THEN -1
    ELSE SignBelow(a, b, -1, 0, Len(a) + 1)

\* the carry into limb k of a + b: the limbs below k carry when the most
\* significant sum among them that is not Base - 1 is larger
CarryInto(a, b, k) == IF SignBelow(a, b, 1, Base - 1, k) > 0 THEN 1 ELSE 0

BAddLimbs(a, b, n) ==
    [k \in 1..n |-> (Limb(a, k) + Limb(b, k) + CarryInto(a, b, k)) % Base]

BAdd(a, b) ==
    IF BSmall(a) /\ BSmall(b) THEN BNat(BInt(a) + BInt(b))
    ELSE BStrip(BAddLimbs(a, b, Max(Len(a), Len(b)) + 1))

\* the borrow from limb k of a - b: the limbs below k borrow when those of a
\* are the smaller number
BorrowFrom(a, b, k) == IF SignBelow(a, b, -1, 0, k) < 0 THEN 1 ELSE 0

BSubLimbs(a, b) ==
    [k \in 1..Len(a) |-> (a[k] - Limb(b, k) - BorrowFrom(a, b, k) + Base) % Base]

\* a - b for a >= b
BSub(a, b) ==
    IF BSmall(a) THEN BNat(BInt(a) - BInt(b)) ELSE BStrip(BSubLimbs(a, b))

\* the low limbs of the products a[k] * m, and their high limbs a limb up
BMulSmallLow(a, m) == [k \in 1..Len(a) |-> (a[k] * m) % Base]
BMulSmallHigh(a, m) ==
    [k \in 1..(Len(a) + 1) |-> IF k = 1 THEN 0 ELSE (a[k - 1] * m) \div Base]

\* a * m for 0 <= m < Base
BMulSmall(a, m) ==
    IF m = 0 \/ Len(a) = 0 THEN <<>>
    ELSE IF Len(a) = 1 THEN BNat(a[1] * m)
    ELSE BAdd(BMulSmallLow(a, m), BMulSmallHigh(a, m))

\* a * Base^n
Shifted(a, n) == IF Len(a) = 0 THEN <<>> ELSE [k \in 1..n |-> 0] \o a

\* a times the limbs lo .. hi of b
RECURSIVE BMulRange(_, _, _, _)
BMulRange(a, b, lo, hi) ==
    IF lo = hi THEN BMulSmall(a, b[lo])
    ELSE BAdd(BMulRange(a, b, lo, (lo + hi) \div 2),
              Shifted(BMulRange(a, b, (lo + hi) \div 2 + 1, hi), (lo + hi) \div 2 + 1 - lo))

BMul(a, b) ==
    IF Len(a) = 0 \/ Len(b) = 0 THEN <<>> ELSE BMulRange(a, b, 1, Len(b))

\* Base^e mod m for 0 < m < Base * 4
RECURSIVE BasePowMod(_, _)
SquareMod(x, m) == (x * x) % m

BasePowMod(e, m) ==
    IF e = 0 THEN 1 % m
    ELSE IF e % 2 = 1 THEN ((Base % m) * BasePowMod(e - 1, m)) % m
    ELSE SquareMod(BasePowMod(e \div 2, m), m)

\* the limbs lo .. hi of a, as a number, mod m
RECURSIVE BModRange(_, _, _, _)
BModJoin(low, high, width, m) == (low + ((BasePowMod(width, m) * high) % m)) % m

BModRange(a, m, lo, hi) ==
    IF lo = hi THEN a[lo] % m
    ELSE BModJoin(BModRange(a, m, lo, (lo + hi) \div 2),
                  BModRange(a, m, (lo + hi) \div 2 + 1, hi), (lo + hi) \div 2 + 1 - lo, m)

\* a mod m for 0 < m < Base * 4
BModSmall(a, m) == IF BSmall(a) THEN BInt(a) % m ELSE BModRange(a, m, 1, Len(a))

\* <<the limbs hi .. lo of the quotient a div m, most significant first, what
\* is left below lo>>, where r is left of the limbs above hi
RECURSIVE BDivRange(_, _, _, _, _)
BDivGlue(high, low) == <<high[1] \o low[1], low[2]>>

BDivLow(a, m, lo, mid, high) == BDivGlue(high, BDivRange(a, m, lo, mid, high[2]))

BDivRange(a, m, lo, hi, r) ==
    IF lo = hi THEN <<<<(r * Base + a[lo]) \div m>>, (r * Base + a[lo]) % m>>
    ELSE BDivLow(a, m, lo, (lo + hi) \div 2,
                 BDivRange(a, m, (lo + hi) \div 2 + 1, hi, r))

Reversed(s) == [k \in 1..Len(s) |-> s[Len(s) + 1 - k]]

\* a div m for 0 < m < Base * 20
BDivSmall(a, m) ==
    IF m = 1 \/ Len(a) = 0 THEN a
    ELSE IF BSmall(a) THEN BNat(BInt(a) \div m)
    ELSE BStrip(Reversed(BDivRange(a, m, 1, Len(a), 0)[1]))

\* the largest q in lo .. hi with b * q <= a, given b * lo <= a
RECURSIVE QuotientDigit(_, _, _, _)
QuotientDigit(a, b, lo, hi) ==
    IF lo = hi THEN lo
    ELSE IF BCmp(BMulSmall(b, (lo + hi + 1) \div 2), a) <= 0
         THEN QuotientDigit(a, b, (lo + hi + 1) \div 2, hi)
         ELSE QuotientDigit(a, b, lo, (lo + hi + 1) \div 2 - 1)

\* <<a div b, a mod b>> for b > 0, by long division: the limbs of a from limb k
\* down are still to come, rem is what is left of the limbs above them
RECURSIVE BDivModFrom(_, _, _, _, _)
BDivModDigit(a, b, k, cur, quo, q) ==
    BDivModFrom(a, b, k - 1, BSub(cur, BMulSmall(b, q)), <<q>> \o quo)

\* the leading limb of a, or its two leading limbs when a is longer than n limbs
Leading(a, n) == IF Len(a) > n THEN a[n + 1] * Base + a[n] ELSE a[n]

\* the leading limbs of cur and b bound the digit from both sides
BDivModLimb(a, b, k, cur, quo) ==
    BDivModDigit(a, b, k, cur, quo,
                 IF BCmp(cur, b) < 0 THEN 0
                 ELSE QuotientDigit(cur, b,
                        Max(1, Leading(cur, Len(b)) \div (b[Len(b)] + 1)),
                        Min(Base - 1, Leading(cur, Len(b)) \div b[Len(b)])))

BDivModFrom(a, b, k, rem, quo) ==
    IF k = 0 THEN <<BStrip(quo), rem>>
    ELSE BDivModLimb(a, b, k, BStrip(<<a[k]>> \o rem), quo)

BDivMod(a, b) == BDivModFrom(a, b, Len(a), <<>>, <<>>)

\* the greatest common divisor of a and b, not both 0
RECURSIVE BGcd(_, _)
BGcd(a, b) ==
    IF Len(b) = 0 THEN a
    ELSE IF BSmall(a) /\ BSmall(b) THEN BNat(Gcd(BInt(a), BInt(b)))
    ELSE BGcd(b, BDivMod(a, b)[2])

\* the factor a and b share with SmoothModulus
SmoothGcd(a, b) == Gcd(Gcd(BModSmall(a, SmoothModulus), SmoothModulus),
                       Gcd(BModSmall(b, SmoothModulus), SmoothModulus))

\* a has no prime factor but those of SmoothModulus
RECURSIVE IsSmooth(_)
IsSmoothBy(a, g) == g # 1 /\ IsSmooth(BDivSmall(a, g))

IsSmooth(a) == a = <<1>> \/ IsSmoothBy(a, Gcd(BModSmall(a, SmoothModulus), SmoothModulus))

\* <<a / g, b / g>> for a common divisor g > 0
BDivideBoth(a, b, g) ==
    IF g = <<1>> THEN <<a, b>> ELSE <<BDivMod(a, g)[1], BDivMod(b, g)[1]>>

\* <<a / g, b / g>> for the greatest common divisor g of a and b, not both 0:
\* the primes of SmoothModulus are taken out first, a limb at a time
RECURSIVE BReduce(_, _)
BReduceBy(a, b, g) ==
    IF g # 1 THEN BReduce(BDivSmall(a, g), BDivSmall(b, g))
    ELSE IF IsSmooth(a) \/ IsSmooth(b) THEN <<a, b>>
    ELSE BDivideBoth(a, b, BGcd(a, b))

\* a single limb m > 0 against b: their greatest common divisor is that of m
\* and b mod m
BReduceLimb(m, b, g) == <<BNat(m \div g), BDivSmall(b, g)>>

BReduce(a, b) ==
    IF Len(a) = 0 THEN <<<<>>, <<1>>>>
    ELSE IF Len(b) = 0 THEN <<<<1>>, <<>>>>
    ELSE IF a = <<1>> \/ b = <<1>> THEN <<a, b>>
    ELSE IF BSmall(a) /\ BSmall(b)
         THEN <<BNat(BInt(a) \div Gcd(BInt(a), BInt(b))),
                BNat(BInt(b) \div Gcd(BInt(a), BInt(b)))>>
    ELSE IF Len(a) = 1 THEN BReduceLimb(a[1], b, Gcd(a[1], BModSmall(b, a[1])))
    ELSE IF Len(b) = 1
         THEN <<BDivSmall(a, Gcd(b[1], BModSmall(a, b[1]))),
                BNat(b[1] \div Gcd(b[1], BModSmall(a, b[1])))>>
    ELSE BReduceBy(a, b, SmoothGcd(a, b))

(***************************************************************************)
(* Floats: NaN, or <<s, n, d>> for the rational s * n / d.                 *)
(***************************************************************************)
NaN == <<>>

\* s * n / d in lowest terms, for a sign s and natural numbers n and d > 0
Norm(s, n, d) ==
    IF Len(n) = 0 \/ s = 0 THEN <<0, <<>>, <<1>>>>
    ELSE <<s>> \o BReduce(n, d)


\* the float n / d of two integers, d > 0
Q(n, d) == Norm(SignOf(n), BNat(Abs(n)), BNat(d))
F(n) == Q(n, 1)
PosInf == <<1, <<1>>, <<>>>>
NegInf == <<-1, <<1>>, <<>>>>

IsNaN(x) == x = NaN
IsInf(x) == x # NaN /\ Len(x[3]) = 0
IsFinite(x) == x # NaN /\ Len(x[3]) # 0
Sgn(x) == x[1]

FNeg(x) == IF IsNaN(x) THEN NaN ELSE <<-x[1], x[2], x[3]>>

\* (s1 * a + s2 * b) / d, where c compares a with b
SignedSum(s1, a, s2, b, d, c) ==
    Norm(IF s2 = 0 \/ s1 = s2 THEN s1
         ELSE IF s1 = 0 THEN s2
         ELSE IF c > 0 THEN s1 ELSE IF c < 0 THEN s2 ELSE 0,
         IF s2 = 0 THEN a
         ELSE IF s1 = 0 THEN b
         ELSE IF s1 = s2 THEN BAdd(a, b)
         ELSE IF c >= 0 THEN BSub(a, b) ELSE BSub(b, a),
         d)

\* x + y for finite x and y, where r is the pair of their denominators
\* without a factor they share
FAddOver(x, y, r) ==
    SignedSum(x[1], BMul(x[2], r[2]), y[1], BMul(y[2], r[1]), BMul(x[3], r[2]),
              BCmp(BMul(x[2], r[2]), BMul(y[2], r[1])))

FAdd(x, y) ==
    IF IsNaN(x) \/ IsNaN(y) THEN NaN
    ELSE IF IsInf(x) THEN (IF IsInf(y) /\ y # x THEN NaN ELSE x)
    ELSE IF IsInf(y) THEN y
    ELSE FAddOver(x, y, BReduce(x[3], y[3]))

FSub(x, y) == FAdd(x, FNeg(y))

\* s * (a[1] * b[1]) / (a[2] * b[2]), which is in lowest terms when a and b
\* are the numerators and denominators of two floats, reduced crosswise
FMulOver(s, a, b) ==
    IF s = 0 THEN <<0, <<>>, <<1>>>> ELSE <<s, BMul(a[1], b[1]), BMul(a[2], b[2])>>

FMul(x, y) ==
    IF IsNaN(x) \/ IsNaN(y) THEN NaN
    ELSE IF IsInf(x) \/ IsInf(y)
         THEN (IF Sgn(x) * Sgn(y) = 0 THEN NaN ELSE <<Sgn(x) * Sgn(y), <<1>>, <<>>>>)
    ELSE FMulOver(Sgn(x) * Sgn(y), BReduce(x[2], y[3]), BReduce(y[2], x[3]))

FDiv(x, y) ==
    IF IsNaN(x) \/ IsNaN(y) THEN NaN
    ELSE IF IsInf(y) THEN (IF IsInf(x) THEN NaN ELSE <<0, <<>>, <<1>>>>)
    ELSE IF Sgn(y) = 0 THEN (IF Sgn(x) = 0 THEN NaN ELSE <<Sgn(x), <<1>>, <<>>>>)
    ELSE IF IsInf(x) THEN <<Sgn(x) * Sgn(y), <<1>>, <<>>>>
    ELSE FMul(x, <<y[1], y[3], y[2]>>)

\* a[1] * n against a[2] * m: -1, 0, 1 as it is smaller, equal, greater
BCmpOver(n, m, a) == BCmp(BMul(n, a[2]), BMul(m, a[1]))

\* -1, 0, 1 as x < y, x = y, x > y, for x and y other than NaN
FCmp(x, y) ==
    IF Sgn(x) # Sgn(y) THEN (IF Sgn(x) > Sgn(y) THEN 1 ELSE -1)
    ELSE IF Sgn(x) = 0 THEN 0
    ELSE IF IsInf(x) \/ IsInf(y)
         THEN (IF IsInf(x) /\ IsInf(y) THEN 0 ELSE IF IsInf(x) THEN Sgn(x) ELSE -Sgn(x))
    ELSE Sgn(x) * BCmpOver(x[2], y[2], BReduce(x[3], y[3]))

\* comparisons with NaN are False
FGt(x, y) == ~IsNaN(x) /\ ~IsNaN(y) /\ FCmp(x, y) > 0
FLt(x, y) == FGt(y, x)
FEq(x, y) == ~IsNaN(x) /\ ~IsNaN(y) /\ FCmp(x, y) = 0

(***************************************************************************)
(* DataFrames.                                                             *)
(***************************************************************************)
NoColumns == [c \in {} |-> <<>>]

\* no second call of get_trading_strategy is in progress
NoCall == [df |-> NoColumns, pc |-> "none", i |-> 0, flag |-> FALSE,
           buy_list |-> <<>>, sell_list |-> <<>>]

HasColumn(d, c) == c \in DOMAIN d

\* len(df)
NRows(d) == IF DOMAIN d = {} THEN 0 ELSE Len(d[CHOOSE c \in DOMAIN d : TRUE])

\* df[c] = values
SetColumn(d, c, values) == (c :> values) @@ d

\* what an operation hands back: its value, or the exception it raised
Returned(v) == [exc |-> "", val |-> v]
Raised(e) == [exc |-> e, val |-> <<>>]

(***************************************************************************)
(* Series.ewm(...).mean() as pandas computes it (ignore_na=False): a fold  *)
(* carrying the weighted average, the weight of the history and the number *)
(* of observations seen.  A missing value leaves the average as it is and  *)
(* ages the history's weight.                                              *)
(***************************************************************************)
\* a fold that starts its average at zero instead of the first value
EwmFirstFromZero(cur) ==
    [weighted |-> IF IsNaN(cur) THEN cur ELSE F(0), old_wt |-> F(1),
     nobs |-> IF IsNaN(cur) THEN 0 ELSE 1]

\* the state after the first value
EwmFirst(cur) ==
    [weighted |-> cur, old_wt |-> F(1), nobs |-> IF IsNaN(cur) THEN 0 ELSE 1]

\* the state after the observation cur, from a state p that holds an average;
\* aged is the weight of the history by now, new_wt the weight of cur
EwmObserve(p, cur, aged, new_wt, adjust) ==
    [weighted |->
        IF ~FEq(p.weighted, cur)
        THEN FDiv(FAdd(FMul(aged, p.weighted), FMul(new_wt, cur)), FAdd(aged, new_wt))
        ELSE p.weighted,
     old_wt |-> IF adjust THEN FAdd(aged, new_wt) ELSE F(1),
     nobs |-> p.nobs + 1]

\* the state after the value cur, from the state p before it
EwmState(p, cur, alpha, adjust) ==
    IF ~IsNaN(p.weighted)
    THEN IF ~IsNaN(cur)
         THEN EwmObserve(p, cur, FMul(p.old_wt, FSub(F(1), alpha)),
                         IF adjust THEN F(1) ELSE alpha, adjust)
         ELSE [p EXCEPT !.old_wt = FMul(p.old_wt, FSub(F(1), alpha))]
    ELSE IF ~IsNaN(cur)
         THEN [p EXCEPT !.weighted = cur, !.nobs = p.nobs + 1]
         ELSE p

\* the result at a row whose state is st
EwmResult(st, minp) == IF st.nobs >= minp THEN st.weighted ELSE NaN

\* the states after each of the rows 1 .. k
RECURSIVE EwmStates(_, _, _, _)
\* the states after the rows before k, and the state row k leaves
EwmAppend(states, vals, alpha, adjust, k) ==
    Append(states, IF k = 1 THEN EwmFirst(vals[1])
                   ELSE EwmState(states[k - 1], vals[k], alpha, adjust))

EwmStates(vals, alpha, adjust, k) ==
    IF k = 0 THEN <<>>
    ELSE EwmAppend(EwmStates(vals, alpha, adjust, k - 1), vals, alpha, adjust, k)

\* the result at every row
EwmResults(states, minp) == [k \in DOMAIN states |-> EwmResult(states[k], minp)]

\* vals.ewm(alpha, adjust, min_periods).mean()
Ewm(vals, alpha, adjust, min_periods) ==
    EwmResults(EwmStates(vals, alpha, adjust, Len(vals)),
               IF min_periods < 1 THEN 1 ELSE min_periods)

\* ewm(span=span): alpha = 2 / (span + 1)
SpanAlpha(span) == Q(2, span + 1)
\* ewm(com=com): alpha = 1 / (1 + com)
ComAlpha(com) == Q(1, 1 + com)

\* a - b, element by element
SeriesSub(a, b) == [k \in DOMAIN a |-> FSub(a[k], b[k])]

(***************************************************************************)
(* get_MACD                                                                *)
(***************************************************************************)
SPAN_SHORT == 12
SPAN_LONG == 26
SPAN_SIGNAL == 9

\* df[name] = df[column].ewm(span=span, min_periods=span, adjust=False).mean()
SetEwmWarmUp(d, name, column, span) ==
    SetColumn(d, name, Ewm(d[column], SpanAlpha(span), FALSE, span))

\* df[name] = df[column].ewm(span=span, adjust=False).mean()
SetEwm(d, name, column, span) ==
    SetColumn(d, name, Ewm(d[column], SpanAlpha(span), FALSE, 0))

\* df[name] = df[b] - df[a]
SetDifferenceSwapped(d, name, a, b) == SetColumn(d, name, SeriesSub(d[b], d[a]))

\* df[name] = df[a] - df[b]
SetDifference(d, name, a, b) == SetColumn(d, name, SeriesSub(d[a], d[b]))

\* the five columns with Signal smoothed from the prices, so seeded at close[0]
MACDColumnsSignalOfClose(d) ==
    SetDifference(
        SetEwm(
            SetDifference(
                SetEwm(SetEwm(d, "EMA-12", "Price Close", SPAN_SHORT),
                       "EMA-26", "Price Close", SPAN_LONG),
                "MACD", "EMA-12", "EMA-26"),
            "Signal", "Price Close", SPAN_SIGNAL),
        "Histogram", "MACD", "Signal")

\* the five columns get_MACD writes, in the order it writes them
MACDColumns(d) ==
    SetDifference(
        SetEwm(
            SetDifference(
                SetEwm(SetEwm(d, "EMA-12", "Price Close", SPAN_SHORT),
                       "EMA-26", "Price Close", SPAN_LONG),
                "MACD", "EMA-12", "EMA-26"),
            "Signal", "MACD", SPAN_SIGNAL),
        "Histogram", "MACD", "Signal")

\* a get_MACD that seeds its recurrences from the first price by position
get_MACD_seeded(d) ==
    IF ~HasColumn(d, "Price Close") THEN Raised("KeyError")
    ELSE IF Len(d["Price Close"]) = 0 THEN Raised("IndexError")
    ELSE Returned(MACDColumns(d))

get_MACD(d) ==
    IF ~HasColumn(d, "Price Close") THEN Raised("KeyError")
    ELSE Returned(MACDColumns(d))

call_get_MACD ==
    /\ pc = "loaded"
    /\ \E r \in {get_MACD(df)} :
         IF r.exc = ""
         THEN df' = r.val /\ pc' = "get_RSI" /\ UNCHANGED raised
         ELSE raised' = <<"get_MACD", r.exc>> /\ pc' = "raised" /\ UNCHANGED df
    /\ UNCHANGED <<csv, look_back, peer, i, flag, buy_list, sell_list, closed_dates>>

(***************************************************************************)
(* get_RSI                                                                 *)
(***************************************************************************)
TIME_WINDOW == 14

\* the differences without the missing one of the first row
DiffDropFirst(vals) == [k \in 1..(Len(vals) - 1) |-> FSub(vals[k + 1], vals[k])]

\* df[column].diff(1)
Diff(vals) == [k \in DOMAIN vals |-> IF k = 1 THEN NaN ELSE FSub(vals[k], vals[k - 1])]

\* the differences themselves, a missing one as 0, in place of the gains
UpChgUnclipped(diff) == [k \in DOMAIN diff |-> IF IsNaN(diff[k]) THEN F(0) ELSE diff[k]]

\* np.where(diff > 0, diff, 0)
UpChg(diff) == [k \in DOMAIN diff |-> IF FGt(diff[k], F(0)) THEN diff[k] ELSE F(0)]
\* np.where(diff < 0, -diff, 0)
DownChg(diff) == [k \in DOMAIN diff |-> IF FLt(diff[k], F(0)) THEN FNeg(diff[k]) ELSE F(0)]

\* pd.Series(chg).ewm(com=time_window - 1, min_periods=time_window).mean()
ChgAvg(chg, time_window) == Ewm(chg, ComAlpha(time_window - 1), TRUE, time_window)

\* the same RSI where a division by a zero average loss gives no value
RSIOfZeroLossMissing(avg_gain, avg_loss) ==
    [k \in DOMAIN avg_gain |->
        IF FEq(avg_loss[k], F(0)) THEN NaN
        ELSE FSub(F(100), FDiv(F(100), FAdd(F(1), FDiv(avg_gain[k], avg_loss[k]))))]

\* RS = up_chg_avg / down_chg_avg; 100 - 100 / (1 + RS)
RSIOf(avg_gain, avg_loss) ==
    [k \in DOMAIN avg_gain |->
        FSub(F(100), FDiv(F(100), FAdd(F(1), FDiv(avg_gain[k], avg_loss[k]))))]

get_RSI(d, time_window) ==
    IF ~HasColumn(d, "Price Close") THEN Raised("KeyError")
    ELSE Returned(SetColumn(d, "RSI",
            RSIOf(ChgAvg(UpChg(Diff(d["Price Close"])), time_window),
                  ChgAvg(DownChg(Diff(d["Price Close"])), time_window))))

call_get_RSI ==
    /\ pc = "get_RSI"
    /\ \E r \in {get_RSI(df, look_back)} :
         IF r.exc = ""
         THEN df' = r.val /\ pc' = "get_trading_strategy" /\ UNCHANGED raised
         ELSE raised' = <<"get_RSI", r.exc>> /\ pc' = "raised" /\ UNCHANGED df
    /\ UNCHANGED <<csv, look_back, peer, i, flag, buy_list, sell_list, closed_dates>>

(***************************************************************************)
(* get_trading_strategy                                                    *)
(***************************************************************************)
\* the loop body without "and not flag" on the Buy branch
StrategyStepUnguarded(macd, signal, close, held) ==
    IF FGt(macd, signal)
    THEN [buy |-> close, sell |-> NaN, flag |-> TRUE]
    ELSE IF FLt(macd, signal) /\ held
    THEN [buy |-> NaN, sell |-> close, flag |-> FALSE]
    ELSE [buy |-> NaN, sell |-> NaN, flag |-> held]

\* the loop body with >= for > on the Buy branch
StrategyStepBuyOnEqual(macd, signal, close, held) ==
    IF (FGt(macd, signal) \/ (~IsNaN(macd) /\ macd = signal)) /\ ~held
    THEN [buy |-> close, sell |-> NaN, flag |-> TRUE]
    ELSE IF FLt(macd, signal) /\ held
    THEN [buy |-> NaN, sell |-> close, flag |-> FALSE]
    ELSE [buy |-> NaN, sell |-> NaN, flag |-> held]

\* the loop body with the Sell branch leaving the flag set
StrategyStepSellKeepsFlag(macd, signal, close, held) ==
    IF FGt(macd, signal) /\ ~held
    THEN [buy |-> close, sell |-> NaN, flag |-> TRUE]
    ELSE IF FLt(macd, signal) /\ held
    THEN [buy |-> NaN, sell |-> close, flag |-> held]
    ELSE [buy |-> NaN, sell |-> NaN, flag |-> held]

\* the loop body over columns whose missing values were filled with 0
StrategyStepFillNa(macd, signal, close, held) ==
    LET m == IF IsNaN(macd) THEN F(0) ELSE macd
        s == IF IsNaN(signal) THEN F(0) ELSE signal
    IN  IF FGt(m, s) /\ ~held
        THEN [buy |-> close, sell |-> NaN, flag |-> TRUE]
        ELSE IF FLt(m, s) /\ held
        THEN [buy |-> NaN, sell |-> close, flag |-> FALSE]
        ELSE [buy |-> NaN, sell |-> NaN, flag |-> held]

\* the loop body with the Buy branch appending the price to both lists
StrategyStepBothLists(macd, signal, close, held) ==
    IF FGt(macd, signal) /\ ~held
    THEN [buy |-> close, sell |-> close, flag |-> TRUE]
    ELSE IF FLt(macd, signal) /\ held
    THEN [buy |-> NaN, sell |-> close, flag |-> FALSE]
    ELSE [buy |-> NaN, sell |-> NaN, flag |-> held]

\* the loop body with the Buy branch leaving the flag unset
StrategyStepBuyStaysFlat(macd, signal, close, held) ==
    IF FGt(macd, signal) /\ ~held
    THEN [buy |-> close, sell |-> NaN, flag |-> held]
    ELSE IF FLt(macd, signal) /\ held
    THEN [buy |-> NaN, sell |-> close, flag |-> FALSE]
    ELSE [buy |-> NaN, sell |-> NaN, flag |-> held]

\* the loop body without "and flag" on the Sell branch
StrategyStepSellUnguarded(macd, signal, close, held) ==
    IF FGt(macd, signal) /\ ~held
    THEN [buy |-> close, sell |-> NaN, flag |-> TRUE]
    ELSE IF FLt(macd, signal)
    THEN [buy |-> NaN, sell |-> close, flag |-> FALSE]
    ELSE [buy |-> NaN, sell |-> NaN, flag |-> held]

\* the loop body where macd > signal while Holding closes the position
StrategyStepToggles(macd, signal, close, held) ==
    IF FGt(macd, signal)
    THEN [buy |-> IF held THEN NaN ELSE close, sell |-> NaN, flag |-> ~held]
    ELSE IF FLt(macd, signal) /\ held
    THEN [buy |-> NaN, sell |-> close, flag |-> FALSE]
    ELSE [buy |-> NaN, sell |-> NaN, flag |-> held]

\* one pass of the loop body over row (macd, signal, close) with the flag
\* as it stands: the entries appended to buy_list and sell_list, the flag after
StrategyStep(macd, signal, close, held) ==
    IF FGt(macd, signal) /\ ~held
    THEN [buy |-> close, sell |-> NaN, flag |-> TRUE]
    ELSE IF FLt(macd, signal) /\ held
    THEN [buy |-> NaN, sell |-> close, flag |-> FALSE]
    ELSE [buy |-> NaN, sell |-> NaN, flag |-> held]

\* the entry of get_trading_strategy with the position already open
strategy_call_holding ==
    /\ pc = "get_trading_strategy"
    /\ pc' = "loop"
    /\ i' = 0
    /\ flag' = TRUE
    /\ buy_list' = <<>>
    /\ sell_list' = <<>>
    /\ UNCHANGED <<csv, look_back, peer, df, closed_dates, raised>>

\* the entry of get_trading_strategy with the flag left as the last call set it
strategy_call_keeps_flag ==
    /\ pc = "get_trading_strategy"
    /\ pc' = "loop"
    /\ i' = 0
    /\ buy_list' = <<>>
    /\ sell_list' = <<>>
    /\ UNCHANGED <<csv, look_back, peer, df, flag, closed_dates, raised>>

\* buy_list, sell_list = [], []; flag = False
strategy_call ==
    /\ pc = "get_trading_strategy"
    /\ pc' = "loop"
    /\ i' = 0
    /\ flag' = FALSE
    /\ buy_list' = <<>>
    /\ sell_list' = <<>>
    /\ UNCHANGED <<csv, look_back, peer, df, closed_dates, raised>>

\* for i in range(len(df)): one iteration (row i is element i + 1)
strategy_iter ==
    /\ pc = "loop"
    /\ i < NRows(df)
    /\ IF HasColumn(df, "MACD") /\ HasColumn(df, "Signal") /\ HasColumn(df, "Price Close")
       THEN LET s == StrategyStep(df["MACD"][i + 1], df["Signal"][i + 1],
                                  df["Price Close"][i + 1], flag)
            IN  /\ buy_list' = Append(buy_list, s.buy)
                /\ sell_list' = Append(sell_list, s.sell)
                /\ flag' = s.flag
                /\ i' = i + 1
                /\ UNCHANGED <<pc, raised>>
       ELSE /\ raised' = <<"get_trading_strategy", "KeyError">>
            /\ pc' = "raised"
            /\ UNCHANGED <<i, flag, buy_list, sell_list>>
    /\ UNCHANGED <<csv, look_back, peer, df, closed_dates>>

\* df['Buy'] = buy_list; df['Sell'] = sell_list; return df
strategy_return ==
    /\ pc = "loop"
    /\ i = NRows(df)
    /\ df' = SetColumn(SetColumn(df, "Buy", buy_list), "Sell", sell_list)
    /\ pc' = "plot"
    /\ UNCHANGED <<csv, look_back, peer, i, flag, buy_list, sell_list, closed_dates, raised>>

\* the loop of get_trading_strategy from row k on: out holds the lists so far
\* and the flag
RECURSIVE StrategyLoop(_, _, _)
\* row k has appended the entries of s and left its flag
StrategyLoopRow(d, k, out, s) ==
    StrategyLoop(d, k + 1, [buy |-> Append(out.buy, s.buy),
                            sell |-> Append(out.sell, s.sell),
                            flag |-> s.flag])

StrategyLoop(d, k, out) ==
    IF k > NRows(d) THEN out
    ELSE StrategyLoopRow(d, k, out,
            StrategyStep(d["MACD"][k], d["Signal"][k], d["Price Close"][k], out.flag))

\* a get_trading_strategy that starts with the position open
get_trading_strategy_holding(d) ==
    StrategyLoop(d, 1, [buy |-> <<>>, sell |-> <<>>, flag |-> TRUE])

\* one whole call of get_trading_strategy on a frame that has the three
\* columns: the lists it stores as Buy and Sell, and the flag at the end
get_trading_strategy(d) ==
    StrategyLoop(d, 1, [buy |-> <<>>, sell |-> <<>>, flag |-> FALSE])

\* df.iloc[k:] and df.iloc[:k]: the rows from position k on, the rows before it
Suffix(d, k) == [c \in DOMAIN d |-> SubSeq(d[c], k + 1, Len(d[c]))]
Prefix(d, k) == [c \in DOMAIN d |-> SubSeq(d[c], 1, k)]

(***************************************************************************)
(* calculate_macd and calculate_rsi of app.py (Dashboard_App.py holds the  *)
(* same two functions).                                                    *)
(***************************************************************************)
\* df["MACD"] = short_ema - long_ema; df["Signal Line"] = df["MACD"].ewm(...)
calculate_macd(d) ==
    IF ~HasColumn(d, "Price Close") THEN Raised("KeyError")
    ELSE Returned(SetEwm(
            SetColumn(d, "MACD",
                SeriesSub(Ewm(d["Price Close"], SpanAlpha(SPAN_SHORT), FALSE, 0),
                          Ewm(d["Price Close"], SpanAlpha(SPAN_LONG), FALSE, 0))),
            "Signal Line", "MACD", SPAN_SIGNAL))

call_calculate_macd ==
    /\ pc = "loaded"
    /\ \E r \in {calculate_macd(df)} :
         IF r.exc = ""
         THEN df' = r.val /\ pc' = "calculate_rsi" /\ UNCHANGED raised
         ELSE raised' = <<"calculate_macd", r.exc>> /\ pc' = "raised" /\ UNCHANGED df
    /\ UNCHANGED <<csv, look_back, peer, i, flag, buy_list, sell_list, closed_dates>>

\* delta.where(delta > 0, 0)
Gain(delta) == [k \in DOMAIN delta |-> IF FGt(delta[k], F(0)) THEN delta[k] ELSE F(0)]
\* -delta.where(delta < 0, 0)
Loss(delta) == [k \in DOMAIN delta |-> FNeg(IF FLt(delta[k], F(0)) THEN delta[k] ELSE F(0))]

\* vals[lo] + ... + vals[hi]
RECURSIVE SumOver(_, _, _)
SumOver(vals, lo, hi) ==
    IF lo > hi THEN F(0) ELSE FAdd(SumOver(vals, lo, hi - 1), vals[hi])

\* vals.rolling(window=window).mean(): the mean of the last window values,
\* missing while fewer than window values are there or one of them is missing
RollingMean(vals, window) ==
    [k \in DOMAIN vals |->
        IF k < window THEN NaN ELSE FDiv(SumOver(vals, k - window + 1, k), F(window))]

calculate_rsi(d, period) ==
    IF ~HasColumn(d, "Price Close") THEN Raised("KeyError")
    ELSE Returned(SetColumn(d, "RSI",
            RSIOf(RollingMean(Gain(Diff(d["Price Close"])), period),
                  RollingMean(Loss(Diff(d["Price Close"])), period))))

call_calculate_rsi ==
    /\ pc = "calculate_rsi"
    /\ \E r \in {calculate_rsi(df, look_back)} :
         IF r.exc = ""
         THEN df' = r.val /\ pc' = "get_trading_strategy" /\ UNCHANGED raised
         ELSE raised' = <<"calculate_rsi", r.exc>> /\ pc' = "raised" /\ UNCHANGED df
    /\ UNCHANGED <<csv, look_back, peer, i, flag, buy_list, sell_list, closed_dates>>

(***************************************************************************)
(* get_closed_dates.  A Timestamp is a count of instants, TicksPerDay to   *)
(* the calendar day; the text '%Y-%m-%d' of a Timestamp is its day.        *)
(***************************************************************************)
\* day.strftime('%Y-%m-%d')
strftime(ts) == ts \div TicksPerDay

\* a range stepping two days at a time
date_range_2D(start, end) ==
    [k \in 1..(IF end < start THEN 0 ELSE (end - start) \div (2 * TicksPerDay) + 1) |->
        start + (k - 1) * 2 * TicksPerDay]

\* pd.date_range(start=start, end=end): start, start + 1 day, ... while <= end
date_range(start, end) ==
    [k \in 1..(IF end < start THEN 0 ELSE (end - start) \div TicksPerDay + 1) |->
        start + (k - 1) * TicksPerDay]

Range(s) == {s[k] : k \in DOMAIN s}

\* a get_closed_dates that looks the instants of the timeline up among the
\* instants of the Date column, not their day texts
get_closed_dates_by_instant(d) ==
    IF ~HasColumn(d, "Date") THEN Raised("KeyError")
    ELSE IF Len(d["Date"]) = 0 THEN Raised("IndexError")
    ELSE LET timeline == date_range(d["Date"][1], d["Date"][Len(d["Date"])])
             kept == SelectSeq(timeline, LAMBDA day : day \notin Range(d["Date"]))
         IN  Returned([k \in DOMAIN kept |-> strftime(kept[k])])

get_closed_dates(d) ==
    IF ~HasColumn(d, "Date") THEN Raised("KeyError")
    ELSE IF Len(d["Date"]) = 0 THEN Raised("IndexError")
    ELSE LET timeline == date_range(d["Date"][1], d["Date"][Len(d["Date"])])
             df_dates == [k \in DOMAIN d["Date"] |-> strftime(d["Date"][k])]
             days == [k \in DOMAIN timeline |-> strftime(timeline[k])]
         IN  Returned(SelectSeq(days, LAMBDA day : day \notin Range(df_dates)))

call_get_closed_dates ==
    /\ pc \in {"get_closed_dates", "loaded"}
    /\ \E r \in {get_closed_dates(df)} :
         IF r.exc = ""
         THEN closed_dates' = r.val /\ pc' = "done" /\ UNCHANGED raised
         ELSE raised' = <<"get_closed_dates", r.exc>> /\ pc' = "raised"
              /\ UNCHANGED closed_dates
    /\ UNCHANGED <<csv, look_back, peer, df, i, flag, buy_list, sell_list>>

(***************************************************************************)
(* get_closed_dates on any Date column, sorted or not.                     *)
(***************************************************************************)
Ticks == 0..((MaxDay + 1) * TicksPerDay - 1)

InitDates ==
    /\ peer = NoCall
    /\ csv = <<>>
    /\ \E n \in 0..MaxLen : \E dates \in [1..n -> Ticks] :
         df = [x \in {"Date"} |-> dates]
    /\ pc = "get_closed_dates"
    /\ i = 0
    /\ flag = FALSE
    /\ buy_list = <<>>
    /\ sell_list = <<>>
    /\ closed_dates = <<>>
    /\ raised = <<>>
    /\ look_back = TIME_WINDOW

NextDates == call_get_closed_dates

SpecDates == InitDates /\ [][NextDates]_vars

(***************************************************************************)
(* get_trading_strategy on any indicator columns.                          *)
(***************************************************************************)
\* MACD and Signal take any value, missing or not; prices are finite, as the
\* close of an observation is (on get_MACD's own output no row with a missing
\* price changes the flag: PricedTriggers holds of Spec).
IndicatorVals == {NaN, F(0), F(1)}
MarkerPrices == {F(1), F(2)}

SeqsUpTo(S, n) == UNION {[1..k -> S] : k \in 0..n}

InitSignals ==
    /\ peer = NoCall
    /\ csv = <<>>
    /\ \E n \in 0..MaxLen :
         \E m \in [1..n -> IndicatorVals], s \in [1..n -> IndicatorVals],
            c \in [1..n -> MarkerPrices] :
             df = [x \in {"MACD", "Signal", "Price Close"} |->
                     IF x = "MACD" THEN m ELSE IF x = "Signal" THEN s ELSE c]
    /\ pc = "get_trading_strategy"
    /\ i = 0
    /\ flag = FALSE
    /\ buy_list = <<>>
    /\ sell_list = <<>>
    /\ closed_dates = <<>>
    /\ raised = <<>>
    /\ look_back = TIME_WINDOW

NextSignals == strategy_call \/ strategy_iter \/ strategy_return

SpecSignals == InitSignals /\ [][NextSignals]_vars

(***************************************************************************)
(* Two calls of get_trading_strategy in progress at once, each on its own  *)
(* DataFrame: buy_list, sell_list, flag and i are locals of a call, so the *)
(* second call has its own.  The rows of the two loops interleave in any   *)
(* order.                                                                  *)
(***************************************************************************)
TwoLen == 2        \* rows of each of the two DataFrames

\* <<macd, signal>> of a row: above, below, equal, missing
CrossRows == {<<F(1), F(0)>>, <<F(0), F(1)>>, <<F(0), F(0)>>, <<NaN, F(0)>>}

\* the DataFrame with the rows given and one closing price
CallFrame(rows, price) ==
    [x \in {"MACD", "Signal", "Price Close"} |->
        [k \in DOMAIN rows |-> IF x = "MACD" THEN rows[k][1]
                               ELSE IF x = "Signal" THEN rows[k][2] ELSE price]]

\* buy_list, sell_list = [], []; flag = False
peer_call ==
    /\ peer.pc = "get_trading_strategy"
    /\ peer' = [peer EXCEPT !.pc = "loop", !.i = 0, !.flag = FALSE,
                            !.buy_list = <<>>, !.sell_list = <<>>]
    /\ UNCHANGED <<csv, look_back, df, pc, i, flag, buy_list, sell_list, closed_dates, raised>>

\* an iteration that keeps the position in the flag of the other call
peer_iter_shared_flag ==
    /\ peer.pc = "loop"
    /\ peer.i < NRows(peer.df)
    /\ \E s \in {StrategyStep(peer.df["MACD"][peer.i + 1], peer.df["Signal"][peer.i + 1],
                              peer.df["Price Close"][peer.i + 1], flag)} :
         /\ peer' = [peer EXCEPT !.buy_list = Append(@, s.buy),
                                 !.sell_list = Append(@, s.sell),
                                 !.flag = s.flag, !.i = @ + 1]
         /\ flag' = s.flag
    /\ UNCHANGED <<csv, look_back, df, pc, i, buy_list, sell_list, closed_dates, raised>>

\* for i in range(len(df)): one iteration of the second call
peer_iter ==
    /\ peer.pc = "loop"
    /\ peer.i < NRows(peer.df)
    /\ IF /\ HasColumn(peer.df, "MACD") /\ HasColumn(peer.df, "Signal")
          /\ HasColumn(peer.df, "Price Close")
       THEN \E s \in {StrategyStep(peer.df["MACD"][peer.i + 1],
                                   peer.df["Signal"][peer.i + 1],
                                   peer.df["Price Close"][peer.i + 1], peer.flag)} :
                peer' = [peer EXCEPT !.buy_list = Append(@, s.buy),
                                     !.sell_list = Append(@, s.sell),
                                     !.flag = s.flag, !.i = @ + 1]
       ELSE peer' = [peer EXCEPT !.pc = "raised"]
    /\ UNCHANGED <<csv, look_back, df, pc, i, flag, buy_list, sell_list, closed_dates, raised>>

\* df['Buy'] = buy_list; df['Sell'] = sell_list; return df
peer_return ==
    /\ peer.pc = "loop"
    /\ peer.i = NRows(peer.df)
    /\ peer' = [peer EXCEPT
                  !.df = SetColumn(SetColumn(@, "Buy", peer.buy_list), "Sell", peer.sell_list),
                  !.pc = "plot"]
    /\ UNCHANGED <<csv, look_back, df, pc, i, flag, buy_list, sell_list, closed_dates, raised>>

InitTwoCalls ==
    /\ csv = <<>>
    /\ \E a \in SeqsUpTo(CrossRows, TwoLen), b \in SeqsUpTo(CrossRows, TwoLen) :
         /\ df = CallFrame(a, F(1))
         /\ peer = [NoCall EXCEPT !.df = CallFrame(b, F(2)), !.pc = "get_trading_strategy"]
    /\ pc = "get_trading_strategy"
    /\ i = 0
    /\ flag = FALSE
    /\ buy_list = <<>>
    /\ sell_list = <<>>
    /\ closed_dates = <<>>
    /\ raised = <<>>
    /\ look_back = TIME_WINDOW

NextTwoCalls ==
    \/ strategy_call
    \/ strategy_iter
    \/ strategy_return
    \/ peer_call
    \/ peer_iter
    \/ peer_return

SpecTwoCalls == InitTwoCalls /\ [][NextTwoCalls]_vars

(***************************************************************************)
(* The __main__ script of Dashboard_Functions.py: load_data, get_MACD,     *)
(* get_RSI, get_trading_strategy; get_closed_dates is offered on the       *)
(* loaded frame.  The input file holds daily rows in any order.            *)
(***************************************************************************)
\* df = pd.read_csv(filepath); df['Date'] = pd.to_datetime(df['Date'])
load_data(rows) ==
    [x \in {"Date", "Price Close"} |->
        IF x = "Date" THEN [k \in DOMAIN rows |-> rows[k].Date]
        ELSE [k \in DOMAIN rows |-> rows[k].Close]]

call_load_data ==
    /\ pc = "load_data"
    /\ df' = load_data(csv)
    /\ pc' = "loaded"
    /\ UNCHANGED <<csv, look_back, peer, i, flag, buy_list, sell_list, closed_dates, raised>>

\* get_MACD, get_RSI and get_trading_strategy called once more, on the
\* DataFrame instance they returned
call_again ==
    /\ pc = "plot"
    /\ pc' = "loaded"
    /\ UNCHANGED <<csv, look_back, peer, df, i, flag, buy_list, sell_list, closed_dates, raised>>

DayStarts == {day * TicksPerDay : day \in 0..MaxDay}
Closes == {NaN} \cup {F(c) : c \in 1..MaxClose}
FileRows == [Date : DayStarts, Close : Closes]

Init ==
    /\ peer = NoCall
    /\ csv \in SeqsUpTo(FileRows, PipeLen)
    /\ df = NoColumns
    /\ pc = "load_data"
    /\ i = 0
    /\ flag = FALSE
    /\ buy_list = <<>>
    /\ sell_list = <<>>
    /\ closed_dates = <<>>
    /\ raised = <<>>
    /\ look_back = TIME_WINDOW

Next ==
    \/ call_load_data
    \/ call_get_closed_dates
    \/ call_get_MACD
    \/ call_get_RSI
    \/ strategy_call
    \/ strategy_iter
    \/ strategy_return
    \/ call_again

Spec == Init /\ [][Next]_vars

(***************************************************************************)
(* Both scripts on a file of consecutive daily rows, sorted by date: the   *)
(* __main__ script of Dashboard_Functions.py, and calculate_macd,          *)
(* calculate_rsi, get_trading_strategy as app.py runs them.  The closes    *)
(* are every short series, and long series whose daily step changes once   *)
(* (a long series shows all its prefixes to the loop over the rows).       *)
(***************************************************************************)
SeriesLen == 17    \* rows of the longest series
SwitchMax == 1     \* a long series changes its daily step after at most so many steps
Jump == 1000       \* the large daily step

Steps == {-1, 0, 1, Jump}

\* n closes from SeriesLen + 1 on: the first a steps are s1, the later ones s2
TwoPhase(n, a, s1, s2) ==
    [k \in 1..n |->
        F(SeriesLen + 1 + s1 * (IF k - 1 < a THEN k - 1 ELSE a)
                        + s2 * (IF k - 1 < a THEN 0 ELSE k - 1 - a))]

SeriesCloses ==
    SeqsUpTo(Closes, PipeLen)
        \cup {TwoPhase(SeriesLen, a, s1, s2) : a \in 1..SwitchMax, s1 \in Steps, s2 \in Steps}

\* the file of closes c, one row a day
DailyFile(c) == [k \in DOMAIN c |-> [Date |-> (k - 1) * TicksPerDay, Close |-> c[k]]]

InitSeries ==
    /\ peer = NoCall
    /\ \E c \in SeriesCloses : csv = DailyFile(c)
    /\ df = NoColumns
    /\ pc = "load_data"
    /\ i = 0
    /\ flag = FALSE
    /\ buy_list = <<>>
    /\ sell_list = <<>>
    /\ closed_dates = <<>>
    /\ raised = <<>>
    /\ look_back = TIME_WINDOW

NextSeries ==
    \/ call_load_data
    \/ call_get_MACD
    \/ call_get_RSI
    \/ call_calculate_macd
    \/ call_calculate_rsi
    \/ strategy_call
    \/ strategy_iter
    \/ strategy_return

SpecSeries == InitSeries /\ [][NextSeries]_vars

(***************************************************************************)
(* The __main__ script of Dashboard_Functions.py on the linear ramp        *)
(* close[t] = t + 1, at several lengths.                                   *)
(***************************************************************************)
RampLen == 40      \* rows of the longest ramp
RampCuts == 5      \* the ramps have RampLen \div k rows, k in 1 .. RampCuts

Ramp(n) == [k \in 1..n |-> F(k)]

InitRamp ==
    /\ peer = NoCall
    /\ \E k \in 1..RampCuts : csv = DailyFile(Ramp(RampLen \div k))
    /\ df = NoColumns
    /\ pc = "load_data"
    /\ i = 0
    /\ flag = FALSE
    /\ buy_list = <<>>
    /\ sell_list = <<>>
    /\ closed_dates = <<>>
    /\ raised = <<>>
    /\ look_back = TIME_WINDOW

NextRamp ==
    \/ call_load_data
    \/ call_get_MACD
    \/ call_get_RSI
    \/ strategy_call
    \/ strategy_iter
    \/ strategy_return

SpecRamp == InitRamp /\ [][NextRamp]_vars

(***************************************************************************)
(* get_RSI and calculate_rsi on any short frame, for any short look-back   *)
(* period (both take the period as an argument).                           *)
(***************************************************************************)
MaxPeriod == 3     \* look-back periods are 1 .. MaxPeriod
RsiLen == 4        \* rows of the frame handed to the RSI functions

RsiCloses == {NaN, F(1), F(2), F(4)}

InitRSI ==
    /\ peer = NoCall
    /\ \E c \in SeqsUpTo(RsiCloses, RsiLen) : csv = DailyFile(c)
    /\ df = load_data(csv)
    /\ pc \in {"get_RSI", "calculate_rsi"}
    /\ look_back \in 1..MaxPeriod
    /\ i = 0
    /\ flag = FALSE
    /\ buy_list = <<>>
    /\ sell_list = <<>>
    /\ closed_dates = <<>>
    /\ raised = <<>>

NextRSI == call_get_RSI \/ call_calculate_rsi

SpecRSI == InitRSI /\ [][NextRSI]_vars

(***************************************************************************)
(* Markers: row k (1-based) of the lists carries a Buy marker when its Buy *)
(* entry has a value and a Sell marker when its Sell entry has one.        *)
(***************************************************************************)
BuyAt(k) == ~IsNaN(buy_list[k])
SellAt(k) == ~IsNaN(sell_list[k])
MarkerAt(k) == BuyAt(k) \/ SellAt(k)
Emitted == 1..Len(buy_list)

\* the lists grow together, and the returned columns are the lists
ListsAligned ==
    /\ Len(buy_list) = Len(sell_list)
    /\ pc = "plot" => df["Buy"] = buy_list /\ df["Sell"] = sell_list

\* C1: in date order no two adjacent markers are of the same kind: between two
\* Buy markers there is a Sell marker and between two Sell markers a Buy marker,
\* whatever the MACD and Signal columns hold (equal values and NaN included).
C1_Alternation ==
    /\ ListsAligned
    /\ \A a, b \in Emitted :
         (a < b /\ MarkerAt(a) /\ MarkerAt(b) /\ \A c \in (a + 1)..(b - 1) : ~MarkerAt(c))
            => /\ BuyAt(a) => (SellAt(b) /\ ~BuyAt(b))
               /\ SellAt(a) => (BuyAt(b) /\ ~SellAt(b))

\* a Buy, then a row whose MACD is missing, then a Sell, all returned
C1_Witness ==
    /\ pc = "plot"
    /\ NRows(df) = 3
    /\ BuyAt(1) /\ ~MarkerAt(2) /\ IsNaN(df["MACD"][2]) /\ SellAt(3)

\* the iteration over row t (1-based) has just run
IterAt(t) == pc = "loop" /\ i = t - 1 /\ i' = t

\* the flag changes only on rows that carry a price
PricedTriggers ==
    [][\A t \in 1..NRows(df) :
          (IterAt(t) /\ flag' # flag) => ~IsNaN(df["Price Close"][t])]_vars

\* C2: the iteration of date t emits a Buy marker iff macd[t] > signal[t] and
\* the machine is Flat before t; the marker is close[t], nothing is written to
\* the Sell list and the machine is Holding after t.
C2_BuyRule ==
    [][\A t \in 1..NRows(df) : IterAt(t) =>
          /\ ~IsNaN(buy_list'[t]) <=> (FGt(df["MACD"][t], df["Signal"][t]) /\ ~flag)
          /\ ~IsNaN(buy_list'[t]) =>
                /\ buy_list'[t] = df["Price Close"][t]
                /\ IsNaN(sell_list'[t])
                /\ flag'
      ]_vars

\* a Buy emitted at a later row than the first, after a Sell
C2_Witness ==
    /\ pc = "loop"
    /\ i = 3
    /\ SellAt(2)
    /\ BuyAt(3)
    /\ flag

\* C3: the iteration of date t emits a Sell marker iff macd[t] < signal[t] and
\* the machine is Holding before t; the marker is close[t], nothing is written
\* to the Buy list and the machine is Flat after t.
C3_SellRule ==
    [][\A t \in 1..NRows(df) : IterAt(t) =>
          /\ ~IsNaN(sell_list'[t]) <=> (FLt(df["MACD"][t], df["Signal"][t]) /\ flag)
          /\ ~IsNaN(sell_list'[t]) =>
                /\ sell_list'[t] = df["Price Close"][t]
                /\ IsNaN(buy_list'[t])
                /\ ~flag'
      ]_vars

\* a Sell emitted while Holding
C3_Witness ==
    /\ pc = "loop"
    /\ i = 2
    /\ BuyAt(1)
    /\ SellAt(2)
    /\ ~flag

\* macd[t] and signal[t] are equal, or one of them is missing
NoCrossAt(t) ==
    \/ IsNaN(df["MACD"][t])
    \/ IsNaN(df["Signal"][t])
    \/ df["MACD"][t] = df["Signal"][t]

\* C4: at a date where macd equals signal, or either has no value, no marker
\* is emitted and the Flat/Holding state is carried forward unchanged.
C4_NoCrossNoChange ==
    [][\A t \in 1..NRows(df) : (IterAt(t) /\ NoCrossAt(t)) =>
          /\ IsNaN(buy_list'[t])
          /\ IsNaN(sell_list'[t])
          /\ flag' = flag
      ]_vars

\* a missing value passed over while Holding, then an equality
C4_Witness ==
    /\ pc = "loop"
    /\ i = 3
    /\ BuyAt(1)
    /\ IsNaN(df["Signal"][2])
    /\ ~IsNaN(df["MACD"][3]) /\ df["MACD"][3] = df["Signal"][3]
    /\ flag

\* C5: a call starts Flat; the first marker, if any, is a Buy, so every Sell
\* marker has a Buy marker at an earlier date.
C5_StartsFlat ==
    /\ (pc = "loop" /\ i = 0) => ~flag
    /\ \A k \in Emitted :
         MarkerAt(k) /\ (\A j \in 1..(k - 1) : ~MarkerAt(j)) => BuyAt(k) /\ ~SellAt(k)
    /\ \A k \in Emitted : SellAt(k) => \E j \in 1..(k - 1) : BuyAt(j)

\* the first row asks for a Sell (macd < signal) and gets none; the first marker
\* comes later
C5_Witness ==
    /\ pc = "plot"
    /\ NRows(df) = 3
    /\ FLt(df["MACD"][1], df["Signal"][1])
    /\ ~MarkerAt(1)
    /\ BuyAt(2)
    /\ SellAt(3)

\* C6: no date carries two markers: no row has a Buy entry and a Sell entry.
C6_OneMarkerPerDate ==
    /\ ListsAligned
    /\ \A k \in Emitted : ~(BuyAt(k) /\ SellAt(k))
    /\ pc = "plot" =>
         \A k \in 1..NRows(df) : IsNaN(df["Buy"][k]) \/ IsNaN(df["Sell"][k])

\* returned columns holding markers of both kinds
C6_Witness ==
    /\ pc = "plot"
    /\ \E k \in 1..NRows(df) : ~IsNaN(df["Buy"][k])
    /\ \E k \in 1..NRows(df) : ~IsNaN(df["Sell"][k])

(***************************************************************************)
(* Closed dates.                                                           *)
(***************************************************************************)
Ascending(dates) == \A a, b \in DOMAIN dates : a < b => dates[a] <= dates[b]
StrictlyAscending(dates) == \A a, b \in DOMAIN dates : a < b => dates[a] < dates[b]

ObservedDays == {strftime(df["Date"][k]) : k \in DOMAIN df["Date"]}
FirstDay == strftime(df["Date"][1])
LastDay == strftime(df["Date"][Len(df["Date"])])

\* C8: on a series with no observation get_closed_dates returns an empty
\* result and raises nothing.
C8_EmptyClosedDates ==
    (NRows(df) = 0 /\ pc \notin {"get_closed_dates", "loaded"})
        => (pc = "done" /\ raised = <<>> /\ closed_dates = <<>>)

\* C10: for a series sorted by date get_closed_dates returns exactly the
\* calendar days from the first to the last observed day that carry no
\* observation, each once, weekends included: nothing when every day of the
\* span is present.
C10_ClosedDatesExact ==
    (pc = "done" /\ Ascending(df["Date"])) =>
        /\ raised = <<>>
        /\ Range(closed_dates) = {day \in FirstDay..LastDay : day \notin ObservedDays}
        /\ Len(closed_dates) = Cardinality(Range(closed_dates))

\* a sorted series whose span misses two days in a row
C10_Witness ==
    /\ pc = "done"
    /\ Ascending(df["Date"])
    /\ Len(df["Date"]) = 3
    /\ closed_dates = <<1, 2>>

(***************************************************************************)
(* Malformed and empty input files.                                        *)
(***************************************************************************)
FileDates == [k \in DOMAIN csv |-> csv[k].Date]

\* C7: when the rows of the input are not strictly ascending by date, none of
\* get_MACD, get_RSI, get_trading_strategy, get_closed_dates returns a result.
C7_MalformedInputRejected ==
    ~StrictlyAscending(FileDates) =>
        /\ ~HasColumn(df, "MACD")
        /\ ~HasColumn(df, "RSI")
        /\ ~HasColumn(df, "Buy")
        /\ pc # "done"

DerivedOfMACD == {"EMA-12", "EMA-26", "MACD", "Signal", "Histogram"}

\* C9: on an input with no observation get_MACD, get_RSI and
\* get_trading_strategy raise nothing and return empty derived columns and
\* empty Buy and Sell columns (no marker).
C9_EmptyInputEmptyOutputs ==
    Len(csv) = 0 =>
        /\ raised # <<>> => raised[1] = "get_closed_dates"
        /\ pc \in {"get_RSI", "get_trading_strategy", "loop", "plot"} =>
              \A c \in DerivedOfMACD : HasColumn(df, c) /\ df[c] = <<>>
        /\ pc \in {"get_trading_strategy", "loop", "plot"} =>
              HasColumn(df, "RSI") /\ df["RSI"] = <<>>
        /\ pc = "loop" => buy_list = <<>> /\ sell_list = <<>>
        /\ pc = "plot" =>
              /\ HasColumn(df, "Buy") /\ df["Buy"] = <<>>
              /\ HasColumn(df, "Sell") /\ df["Sell"] = <<>>

\* the three operations have all returned on the empty input
C9_Witness ==
    /\ Len(csv) = 0
    /\ pc = "plot"
    /\ raised = <<>>
    /\ DOMAIN df = {"Date", "Price Close", "RSI", "Buy", "Sell"} \cup DerivedOfMACD

(***************************************************************************)
(* Shapes of the closing prices of the input file.                         *)
(***************************************************************************)
FileCloses == [k \in DOMAIN csv |-> csv[k].Close]

\* every close is above the one before it
StrictlyIncreasing(c) == \A k \in 2..Len(c) : FGt(c[k], c[k - 1])

\* no daily step is smaller than the one before it
StepsNeverShrink(c) ==
    \A k \in 3..Len(c) : ~FLt(FSub(c[k], c[k - 1]), FSub(c[k - 1], c[k - 2]))

\* the markers emitted so far over the columns get_MACD wrote: at most one Buy,
\* and no Sell at a later row than a Buy
OneBuyNoSell ==
    HasColumn(df, "Histogram") =>
        /\ Cardinality({k \in Emitted : BuyAt(k)}) <= 1
        /\ \A a, b \in Emitted : (a < b /\ BuyAt(a)) => ~SellAt(b)

\* C11 as stated: on a strictly increasing close series get_trading_strategy,
\* run on the output of get_MACD, emits at most one Buy marker and never a Sell
\* marker after it.
C11_IncreasingOneBuy ==
    StrictlyIncreasing(FileCloses) => OneBuyNoSell

\* C11, amended: on a strictly increasing close series whose daily steps never
\* shrink, get_trading_strategy, run on the output of get_MACD, emits at most
\* one Buy marker and never a Sell marker after it.
C11_SteadyRiseOneBuy ==
    (StrictlyIncreasing(FileCloses) /\ StepsNeverShrink(FileCloses)) => OneBuyNoSell

\* a long rise by equal steps, returned with its one Buy at the second row
C11_Witness ==
    /\ pc = "plot"
    /\ Len(csv) = SeriesLen
    /\ StrictlyIncreasing(FileCloses) /\ StepsNeverShrink(FileCloses)
    /\ HasColumn(df, "Histogram")
    /\ {k \in 1..NRows(df) : ~IsNaN(df["Buy"][k])} = {2}
    /\ \A k \in 1..NRows(df) : IsNaN(df["Sell"][k])

\* C12: on a strictly increasing close series the short EMA is above the long
\* EMA and macd is above 0 at every index t >= 1, in the columns get_MACD
\* returns and in the MACD column calculate_macd returns.
C12_RisingMacdPositive ==
    (StrictlyIncreasing(FileCloses) /\ pc \in {"get_RSI", "calculate_rsi"}) =>
        /\ \A k \in 2..NRows(df) : FGt(df["MACD"][k], F(0))
        /\ HasColumn(df, "EMA-26") =>
              \A k \in 2..NRows(df) : FGt(df["EMA-12"][k], df["EMA-26"][k])

\* get_MACD has returned on a long rise whose steps shrink after the first
C12_Witness ==
    /\ pc = "get_RSI"
    /\ Len(csv) = SeriesLen
    /\ StrictlyIncreasing(FileCloses) /\ ~StepsNeverShrink(FileCloses)
    /\ FGt(df["EMA-12"][SeriesLen], df["EMA-26"][SeriesLen])
    /\ FLt(df["MACD"][SeriesLen], df["MACD"][SeriesLen - 1])

\* every close has the value of the first
Constant(c) == \A k \in DOMAIN c : FEq(c[k], c[1])

\* C13: on a constant close series macd and histogram are 0 at every index,
\* and get_trading_strategy emits no Buy and no Sell marker.
C13_ConstantNoSignal ==
    Constant(FileCloses) =>
        /\ HasColumn(df, "Histogram") =>
              \A k \in 1..NRows(df) :
                 FEq(df["MACD"][k], F(0)) /\ FEq(df["Histogram"][k], F(0))
        /\ HasColumn(df, "Signal Line") => \A k \in 1..NRows(df) : FEq(df["MACD"][k], F(0))
        /\ \A k \in Emitted : ~MarkerAt(k)

\* a long constant series, returned without a marker
C13_Witness ==
    /\ pc = "plot"
    /\ Len(csv) = SeriesLen
    /\ Constant(FileCloses)
    /\ FEq(df["Histogram"][SeriesLen], F(0))
    /\ \A k \in 1..NRows(df) : IsNaN(df["Buy"][k]) /\ IsNaN(df["Sell"][k])

(***************************************************************************)
(* Missing prices and short series.                                        *)
(***************************************************************************)
\* C14: when close[k] is NaN, the columns EMA-12, EMA-26, MACD, Signal and
\* Histogram that get_MACD returns hold no value at every row t >= k.
C14_MissingPricePoisons ==
    HasColumn(df, "Histogram") =>
        \A k \in 1..NRows(df) : IsNaN(df["Price Close"][k]) =>
            \A t \in k..NRows(df) : \A c \in DerivedOfMACD : IsNaN(df[c][t])

\* the columns of get_MACD that come from the long EMA
DerivedOfLongEMA == {"EMA-26", "MACD", "Signal", "Histogram"}

\* C15: on a series of fewer than 26 observations get_MACD raises nothing and
\* the long EMA and the columns derived from it (MACD, Signal, Histogram) hold
\* no value at any row.
C15_ShortSeriesNoValue ==
    Len(csv) < SPAN_LONG =>
        /\ raised # <<>> => raised[1] # "get_MACD"
        /\ HasColumn(df, "Histogram") =>
              \A k \in 1..NRows(df) : \A c \in DerivedOfLongEMA : IsNaN(df[c][k])

(***************************************************************************)
(* The RSI column, as get_RSI or calculate_rsi left it.                    *)
(***************************************************************************)
\* the frame the RSI function was called on
RsiInput == load_data(csv)

\* C16: rsi has no value at index 0 and at every index t < period (rows 1 to
\* period): its first value comes at index t = period, and the missing
\* difference at index 0 is not counted as a sample.
C16_RsiWarmUp ==
    pc = "get_trading_strategy" =>
        \A k \in 1..NRows(df) : k <= look_back => IsNaN(df["RSI"][k])

\* C17: calculate_rsi and get_RSI, given the same close series and period,
\* return the same rsi (or both no value) at every index.
C17_OneSmoothingPolicy ==
    pc = "get_trading_strategy" =>
        /\ df["RSI"] = get_RSI(RsiInput, look_back).val["RSI"]
        /\ df["RSI"] = calculate_rsi(RsiInput, look_back).val["RSI"]

\* at the rows where the average loss is 0: rsi is 100 when the average gain
\* is above 0 and has no value when the average gain is 0
ZeroLossRule(avg_gain, avg_loss, rsi) ==
    \A k \in DOMAIN rsi :
        FEq(avg_loss[k], F(0)) =>
            /\ FGt(avg_gain[k], F(0)) => FEq(rsi[k], F(100))
            /\ FEq(avg_gain[k], F(0)) => IsNaN(rsi[k])

\* C18: at an index past warm-up where the average loss is 0, rsi is 100 when
\* the average gain is above 0 and has no value when the average gain is 0, for
\* get_RSI and for calculate_rsi; so on a constant close series rsi has no
\* value at any index.
C18_ZeroAverageLoss ==
    [][/\ (pc = "get_RSI" /\ pc' = "get_trading_strategy") =>
             /\ ZeroLossRule(ChgAvg(UpChg(Diff(df["Price Close"])), look_back),
                             ChgAvg(DownChg(Diff(df["Price Close"])), look_back),
                             df'["RSI"])
             /\ Constant(df["Price Close"]) => \A k \in 1..NRows(df) : IsNaN(df'["RSI"][k])
       /\ (pc = "calculate_rsi" /\ pc' = "get_trading_strategy") =>
             /\ ZeroLossRule(RollingMean(Gain(Diff(df["Price Close"])), look_back),
                             RollingMean(Loss(Diff(df["Price Close"])), look_back),
                             df'["RSI"])
             /\ Constant(df["Price Close"]) => \A k \in 1..NRows(df) : IsNaN(df'["RSI"][k])
      ]_vars

\* a rise followed by flat days: rsi is 100 while the window holds the rise,
\* and has no value once the window holds flat days only
C18_Witness ==
    /\ pc = "get_trading_strategy"
    /\ NRows(df) = RsiLen
    /\ \A k \in 1..NRows(df) : ~IsNaN(df["Price Close"][k])
    /\ \E j \in 1..NRows(df) : FEq(df["RSI"][j], F(100))
    /\ IsNaN(df["RSI"][RsiLen])
    /\ look_back < RsiLen

\* C19: wherever rsi has a value it lies between 0 and 100, for every close
\* series, after get_RSI and after calculate_rsi.
C19_RsiBounded ==
    HasColumn(df, "RSI") =>
        \A k \in 1..NRows(df) :
            \/ IsNaN(df["RSI"][k])
            \/ /\ IsFinite(df["RSI"][k])
               /\ ~FLt(df["RSI"][k], F(0))
               /\ ~FGt(df["RSI"][k], F(100))

\* an rsi strictly between the bounds
C19_Witness ==
    /\ pc = "get_trading_strategy"
    /\ \E k \in 1..NRows(df) : FGt(df["RSI"][k], F(0)) /\ FLt(df["RSI"][k], F(100))
    /\ \E k \in 1..NRows(df) : FEq(df["RSI"][k], F(0))

(***************************************************************************)
(* Calls repeated on the same DataFrame instance.                          *)
(***************************************************************************)
\* C20: get_MACD, get_RSI and get_trading_strategy, called a second time on
\* the instance the first calls returned, leave every derived column and the
\* Buy and Sell columns as the first calls made them: the second result does
\* not depend on the first call having run.
C20_SecondCallSame ==
    [][HasColumn(df, "Buy") =>
          /\ df' = df
          /\ pc' = "plot" => (buy_list' = df["Buy"] /\ sell_list' = df["Sell"])
      ]_vars

\* the second pass of the loop has emitted the Buy of the first pass again
C20_Witness ==
    /\ pc = "loop"
    /\ HasColumn(df, "Buy")
    /\ i = NRows(df)
    /\ i = PipeLen
    /\ BuyAt(PipeLen)
    /\ flag
    /\ buy_list = df["Buy"]

(***************************************************************************)
(* The DataFrame handed to the operations.                                 *)
(***************************************************************************)
\* C21: get_MACD, get_RSI and get_trading_strategy leave the DataFrame passed
\* to them as it was: after a call the instance has exactly the columns and
\* values it was loaded with.
C21_InputNotMutated ==
    pc # "load_data" => df = load_data(csv)

\* C22: on an input of n rows every column of the DataFrame, derived ones
\* included, has n entries, the Date column being the input's, so entry t of a
\* derived column stands at input date t; the loop of get_trading_strategy
\* has appended one Buy entry and one Sell entry per row it has processed.
C22_DerivedAligned ==
    pc # "load_data" =>
        /\ df["Date"] = FileDates
        /\ \A c \in DOMAIN df : Len(df[c]) = Len(csv)
        /\ pc = "loop" => Len(buy_list) = i /\ Len(sell_list) = i

\* all eight derived columns returned on an input of the greatest length
C22_Witness ==
    /\ pc = "plot"
    /\ Len(csv) = PipeLen
    /\ DOMAIN df = {"Date", "Price Close", "RSI", "Buy", "Sell"} \cup DerivedOfMACD
    /\ \E k \in 1..PipeLen : ~IsNaN(df["Buy"][k])

(***************************************************************************)
(* The position the flag stands for.                                       *)
(***************************************************************************)
Buys == Cardinality({k \in Emitted : BuyAt(k)})
Sells == Cardinality({k \in Emitted : SellAt(k)})

\* C26: after any prefix of the rows, the number of Buy markers emitted less
\* the number of Sell markers emitted is 0 when the machine is Flat and 1
\* when it is Holding.
C26_OpenPositionIsFlag ==
    pc = "loop" => Buys - Sells = (IF flag THEN 1 ELSE 0)

\* Holding after a Buy, a Sell and a second Buy
C26_Witness ==
    /\ pc = "loop"
    /\ i = 3
    /\ BuyAt(1) /\ SellAt(2) /\ BuyAt(3)
    /\ Buys - Sells = 1
    /\ flag

\* C27: right after the iteration of date t the machine is Holding whenever
\* macd[t] > signal[t] and Flat whenever macd[t] < signal[t], whatever it was
\* before t.
C27_FlagFollowsCross ==
    [][\A t \in 1..NRows(df) : IterAt(t) =>
          /\ FGt(df["MACD"][t], df["Signal"][t]) => flag'
          /\ FLt(df["MACD"][t], df["Signal"][t]) => ~flag'
      ]_vars

\* macd > signal on two rows in a row: Holding stays Holding, without a marker
C27_Witness ==
    /\ pc = "loop"
    /\ i = 3
    /\ FLt(df["MACD"][1], df["Signal"][1])
    /\ FGt(df["MACD"][2], df["Signal"][2])
    /\ FGt(df["MACD"][3], df["Signal"][3])
    /\ ~MarkerAt(3)
    /\ flag

(***************************************************************************)
(* The first row.                                                          *)
(***************************************************************************)
\* C29: for a non-empty series whose first close is finite, get_MACD returns
\* EMA-12[0] = EMA-26[0] = close[0], MACD[0] = 0, Signal[0] = MACD[0] and
\* Histogram[0] = 0, and get_trading_strategy, run on these columns, emits no
\* marker at the first date.
C29_FirstRowSeeded ==
    (Len(csv) > 0 /\ IsFinite(csv[1].Close) /\ HasColumn(df, "Histogram")) =>
        /\ df["EMA-12"][1] = csv[1].Close
        /\ df["EMA-26"][1] = csv[1].Close
        /\ FEq(df["MACD"][1], F(0))
        /\ df["Signal"][1] = df["MACD"][1]
        /\ FEq(df["Histogram"][1], F(0))
        /\ (pc = "loop" /\ i >= 1) => ~MarkerAt(1)
        /\ pc = "plot" => IsNaN(df["Buy"][1]) /\ IsNaN(df["Sell"][1])

\* returned columns whose first marker stands at the second date
C29_Witness ==
    /\ pc = "plot"
    /\ Len(csv) = PipeLen
    /\ IsFinite(csv[1].Close)
    /\ FGt(df["MACD"][2], df["Signal"][2])
    /\ IsNaN(df["Buy"][1])
    /\ df["Buy"][2] = csv[2].Close

(***************************************************************************)
(* Closed dates of any non-empty Date column.                              *)
(***************************************************************************)
Span == FirstDay..LastDay

\* C30: on a non-empty input, sorted or not, get_closed_dates returns days in
\* strictly ascending order, each within the span from the first row's day to
\* the last row's day and none of them a day of the input; the returned days
\* and the distinct input days inside the span together count the calendar
\* days of the span (none, and an empty result, when the first row's day is
\* later than the last row's).
C30_ClosedDatesShape ==
    (NRows(df) > 0 /\ pc \notin {"get_closed_dates", "loaded"}) =>
        /\ pc = "done"
        /\ StrictlyAscending(closed_dates)
        /\ \A k \in DOMAIN closed_dates :
              closed_dates[k] \in Span /\ closed_dates[k] \notin ObservedDays
        /\ Len(closed_dates) + Cardinality(ObservedDays \cap Span) = Cardinality(Span)
        /\ FirstDay > LastDay => closed_dates = <<>>

\* an unsorted Date column with a day of the span missing and a day outside it
C30_Witness ==
    /\ pc = "done"
    /\ Len(df["Date"]) = 3
    /\ ~Ascending(df["Date"])
    /\ \E k \in 1..3 : strftime(df["Date"][k]) \notin Span
    /\ closed_dates = <<1>>

(***************************************************************************)
(* Columns read along the pipelines.                                       *)
(***************************************************************************)
\* C28: in the __main__ script of Dashboard_Functions.py and in the script of
\* app.py every derived column an operation reads was written under that name
\* by an earlier step, so no step ends in a missing-column error.
C28_ColumnsWrittenBeforeRead ==
    raised = <<>> \/ raised[2] # "KeyError"

(***************************************************************************)
(* A fresh call on the later rows only.                                    *)
(***************************************************************************)
\* the markers the returned columns hold from position k on
MarkersFrom(k) ==
    [buy |-> SubSeq(df["Buy"], k + 1, NRows(df)),
     sell |-> SubSeq(df["Sell"], k + 1, NRows(df))]

\* a fresh call on the rows from position k on emits the markers in m
SuffixRunEmits(k, m) ==
    /\ get_trading_strategy(Suffix(df, k)).buy = m.buy
    /\ get_trading_strategy(Suffix(df, k)).sell = m.sell

\* C23 as stated: for every cut index k, a fresh get_trading_strategy run on
\* the rows [k..n) emits exactly the markers the run on all rows emits at the
\* indices >= k.
C23_SuffixRunSameMarkers ==
    pc = "plot" => \A k \in 0..NRows(df) : SuffixRunEmits(k, MarkersFrom(k))

\* C23, amended: for every cut index k before which the run on all rows is
\* Flat, a fresh get_trading_strategy run on the rows [k..n) emits exactly the
\* markers the run on all rows emits at the indices >= k.
C23_SuffixRunFromFlat ==
    pc = "plot" =>
        \A k \in 0..NRows(df) :
            ~get_trading_strategy(Prefix(df, k)).flag => SuffixRunEmits(k, MarkersFrom(k))

\* a cut after a Buy and its Sell: the fresh run on the last row emits the
\* second Buy, as the run on all rows did
C23_Witness ==
    /\ pc = "plot"
    /\ NRows(df) = 3
    /\ BuyAt(1) /\ SellAt(2) /\ BuyAt(3)
    /\ ~get_trading_strategy(Prefix(df, 2)).flag
    /\ get_trading_strategy(Suffix(df, 2)).buy = <<df["Price Close"][3]>>

(***************************************************************************)
(* The linear ramp.                                                        *)
(***************************************************************************)
\* row k is the first whose macd is above 0
FirstPositiveMacd(k) ==
    /\ FGt(df["MACD"][k], F(0))
    /\ \A j \in 1..(k - 1) : ~FGt(df["MACD"][j], F(0))

\* C25: on the linear ramp close[t] = t + 1, get_trading_strategy run on the
\* output of get_MACD emits one Buy marker, at the first index where macd is
\* above 0, and no Sell marker anywhere.
C25_RampOneBuy ==
    HasColumn(df, "Histogram") =>
        /\ \A k \in Emitted : BuyAt(k) <=> FirstPositiveMacd(k)
        /\ \A k \in Emitted : ~SellAt(k)
        /\ (pc = "plot" /\ NRows(df) >= 2) => Buys = 1

\* the ramp of the greatest length, returned with its Buy at the second row
C25_Witness ==
    /\ pc = "plot"
    /\ Len(csv) = RampLen
    /\ FileCloses = Ramp(RampLen)
    /\ FirstPositiveMacd(2)
    /\ df["Buy"][2] = F(2)
    /\ Buys = 1 /\ Sells = 0

\* the lists and the flag a call has after k rows are those of a call that
\* runs alone on the first k rows of d
AloneSoFar(d, k, buys, sells, f) ==
    [buy |-> buys, sell |-> sells, flag |-> f] = get_trading_strategy(Prefix(d, k))

\* the Buy and Sell columns of the returned d are those of a call that runs alone
AloneReturned(d) ==
    /\ d["Buy"] = get_trading_strategy(d).buy
    /\ d["Sell"] = get_trading_strategy(d).sell

\* C24: two calls of get_trading_strategy on separate DataFrames, their rows
\* interleaved in any order, each hold after every row and return the markers
\* and the position a call running alone has: a call starts Flat whatever the
\* position of the other, and no row of one call changes the other.
C24_InterleavedCallsAsAlone ==
    /\ pc = "loop" => AloneSoFar(df, i, buy_list, sell_list, flag)
    /\ peer.pc = "loop" =>
         AloneSoFar(peer.df, peer.i, peer.buy_list, peer.sell_list, peer.flag)
    /\ pc = "plot" => AloneReturned(df)
    /\ peer.pc = "plot" => AloneReturned(peer.df)

\* the second call has started and passed a row Flat while the first is
\* Holding, then the first has sold while the second is Holding
C24_Witness ==
    /\ pc = "loop" /\ i = 2 /\ ~flag
    /\ buy_list[1] = F(1) /\ sell_list[2] = F(1)
    /\ peer.pc = "loop" /\ peer.i = 2 /\ peer.flag
    /\ IsNaN(peer.buy_list[1]) /\ peer.buy_list[2] = F(2)

====
